---- MODULE Spec2Model ----
(***************************************************************************)
(* A model of blockchain/peer.py: one BlockchainPeer with its chain, its   *)
(* pool of unconfirmed transactions, the proof-of-work search, the append  *)
(* operation and the chain validator.                                      *)
(*                                                                         *)
(* Python objects are modelled with their identity where the code shares   *)
(* them: a list of transactions is a cell of `heap`, and a block and the   *)
(* pool hold a reference to a cell (mine() hands the pool's own list to    *)
(* the new block, peer.py line 156).                                       *)
(*                                                                         *)
(* blockchain/block.py is not part of the sources at hand.  compute_hash   *)
(* follows the design document: a deterministic digest, written in         *)
(* hexadecimal digits, of every field of the block except `hash`.  SHA-256 *)
(* is idealised as collision free: the digest is two pseudo-random leading *)
(* digits followed by the canonical serialisation of the fields.           *)
(***************************************************************************)
EXTENDS Integers, Sequences, FiniteSets, Bags

VARIABLES
    peer_name,                  \* self.peer_name
    chain,                      \* self.chain: sequence of Block objects
    heap,                       \* the list objects: reference -> sequence of transactions
    unconfirmed_transactions,   \* self.unconfirmed_transactions: a reference into heap
    next_tx,                    \* the next Transaction a caller will submit
    storage,                    \* content of the_longest_chain.pickle (NoFile: not written)
    announces,                  \* how many times _announce has run
    pc,                         \* position of the mine() call in flight ("idle": none)
    new_block,                  \* mine()'s local new_block
    computed_hash,              \* proof_of_work's local computed_hash / mine()'s proof
    start_pool,                 \* the pool's content when the mine() in flight was called
    appending,                  \* callers' _add_block calls past the checks, before line 77:
                                \* a bag, two calls may have equal arguments
    last                        \* the last completed call: what it was given, what it did

vars == <<peer_name, chain, heap, unconfirmed_transactions, next_tx, storage,
          announces, pc, new_block, computed_hash, start_pool, appending, last>>

-----------------------------------------------------------------------------
(* Bounds of the model *)

\* Transactions submitted to the peer over a run.
MaxTx == 3
\* Longest chain the model grows.
MaxChain == 3
\* Period of the idealised digest's leading digits in the nonce: every block
\* has a nonce below HashCycle whose digest meets the difficulty.
HashCycle == 4

\* Values time.time() takes.
Timestamps == {1}
\* Peer names (author codes); 'Satoshi', the genesis author, is code 0.
PeerNames == {1, 2}
Satoshi == 0

-----------------------------------------------------------------------------
(* Values *)

\* Hexadecimal digits; a digest is a sequence of them.
HexBase == 16
\* The sentinel previous_hash "0" of the genesis block.
Sentinel == <<0>>
\* A Block that has no hash attribute yet (unsealed).
NoHash == <<>>
NoBlock == [index |-> -1]
NoFile == -1
\* The file as open(..., 'wb') leaves it: there, with no byte in it.
EmptyFile == 0

RECURSIVE Sum(_)
Sum(s) == IF s = <<>> THEN 0 ELSE Head(s) + Sum(Tail(s))

\* '0' * n
Zeros(n) == [i \in 1..n |-> 0]

\* str.startswith
startswith(s, prefix) ==
    /\ Len(s) >= Len(prefix)
    /\ SubSeq(s, 1, Len(prefix)) = prefix

IsPrefix(s, t) ==
    /\ Len(s) <= Len(t)
    /\ SubSeq(t, 1, Len(s)) = s

-----------------------------------------------------------------------------
(* Block *)

\* Block(index, transactions, author, timestamp, previous_hash, nonce): hash unset.
Block(index, transactions, author, timestamp, previous_hash, nonce) ==
    [index |-> index, transactions |-> transactions, author |-> author,
     timestamp |-> timestamp, nonce |-> nonce, previous_hash |-> previous_hash,
     hash |-> NoHash]

\* Canonical serialisation of every field but hash; b.transactions is the
\* sequence itself.
Serialize(b) ==
    <<b.index, b.author, b.timestamp, b.nonce \div HexBase, b.nonce % HexBase,
      Len(b.transactions)>> \o b.transactions \o b.previous_hash

\* The two leading digits of the digest: 00 for one nonce in every HashCycle.
LeadDigits(b) ==
    LET v == (1 + Sum(Serialize(b))) % HashCycle
        l == (5 * v) % (HexBase * HexBase)
    IN  <<l \div HexBase, l % HexBase>>

\* Block.compute_hash(): the hash field is no input.
compute_hash(b) == LeadDigits(b) \o Serialize(b)

\* The block as its fields' values: the transactions list dereferenced in h.
View(b, h) == [b EXCEPT !.transactions = h[b.transactions]]

ChainView(c, h) == [i \in 1..Len(c) |-> View(c[i], h)]

-----------------------------------------------------------------------------
(* BlockchainPeer: class attributes and pure methods *)

difficulty == 2

\* proof_of_work(block), lines 93-101, from the nonce the loop is at: the nonce
\* it leaves on the block, the hash returned, and the block as it leaves it.
RECURSIVE pow_loop(_)
pow_loop(b) ==
    IF startswith(compute_hash(b), Zeros(difficulty))
    THEN [nonce |-> b.nonce, computed_hash |-> compute_hash(b), block |-> b]
    ELSE pow_loop([b EXCEPT !.nonce = b.nonce + 1])

\* proof_of_work that searches on from the nonce the block came with.
proof_of_work_no_reset(b) == pow_loop(b)

\* proof_of_work(block): the search from nonce 0.
proof_of_work(b) == pow_loop([b EXCEPT !.nonce = 0])

\* is_valid_proof that trusts the claimed hash: no recomputation.
is_valid_proof_no_recompute(b, block_hash) ==
    startswith(block_hash, Zeros(difficulty))

\* is_valid_proof that drops the difficulty test.
is_valid_proof_no_difficulty(b, block_hash) ==
    block_hash = compute_hash(b)

\* is_valid_proof that compares with the hash stored on a sealed block.
is_valid_proof_stored_hash(b, block_hash) ==
    /\ startswith(block_hash, Zeros(difficulty))
    /\ block_hash = (IF b.hash # NoHash THEN b.hash ELSE compute_hash(b))

\* is_valid_proof(block, block_hash)
is_valid_proof(b, block_hash) ==
    /\ startswith(block_hash, Zeros(difficulty))
    /\ block_hash = compute_hash(b)

\* self.last_block
last_block == chain[Len(chain)]

\* _add_block without its two verifications.
add_block_unverified(c, h, block, proof) ==
    [raised |-> "", block |-> [block EXCEPT !.hash = proof],
     chain |-> Append(c, [block EXCEPT !.hash = proof])]

\* _add_block testing the proof before the previous hash.
add_block_proof_first(c, h, block, proof) ==
    LET previous_hash == c[Len(c)].hash IN
    IF ~is_valid_proof(View(block, h), proof)
    THEN [raised |-> "Invalid proof", chain |-> c, block |-> block]
    ELSE IF previous_hash # block.previous_hash
    THEN [raised |-> "Invalid block", chain |-> c, block |-> block]
    ELSE [raised |-> "", block |-> [block EXCEPT !.hash = proof],
          chain |-> Append(c, [block EXCEPT !.hash = proof])]

\* _add_block appending before it verifies the proof.
add_block_append_first(c, h, block, proof) ==
    LET previous_hash == c[Len(c)].hash IN
    IF previous_hash # block.previous_hash
    THEN [raised |-> "Invalid block", chain |-> c, block |-> block]
    ELSE IF ~is_valid_proof(View(block, h), proof)
    THEN [raised |-> "Invalid proof", chain |-> Append(c, block), block |-> block]
    ELSE [raised |-> "", block |-> [block EXCEPT !.hash = proof],
          chain |-> Append(c, [block EXCEPT !.hash = proof])]

\* The effect of _add_block(block, proof) on chain c with heap h: the error
\* raised ("" when none), the chain and the block object afterwards.
add_block_result(c, h, block, proof) ==
    LET previous_hash == c[Len(c)].hash IN
    IF previous_hash # block.previous_hash
    THEN [raised |-> "Invalid block", chain |-> c, block |-> block]
    ELSE IF ~is_valid_proof(View(block, h), proof)
    THEN [raised |-> "Invalid proof", chain |-> c, block |-> block]
    ELSE [raised |-> "", block |-> [block EXCEPT !.hash = proof],
          chain |-> Append(c, [block EXCEPT !.hash = proof])]

\* A genesis block sealed with the hash of nonce 0, no search.
genesis_block_unmined(ref) ==
    LET b == Block(0, ref, Satoshi, 0, Sentinel, 0)
    IN  [b EXCEPT !.hash = compute_hash([b EXCEPT !.transactions = <<>>])]

\* The genesis block create_genesis_block builds, its transactions list at ref.
genesis_block(ref) ==
    LET b == Block(0, ref, Satoshi, 0, Sentinel, 0)
        pw == proof_of_work([b EXCEPT !.transactions = <<>>])
    IN  [b EXCEPT !.nonce = pw.nonce, !.hash = pw.computed_hash]

\* The loop of check_chain_validity over the list c (blocks by value), from
\* position i with the running previous_hash: the result, the error that
\* escapes, the position (0-based) of the block the loop stopped at (-1: none)
\* and the list as the loop leaves it: a block it passed has its hash put
\* back (line 210), the block it breaks at has lost it (line 198).
RECURSIVE chain_walk(_, _, _)
chain_walk(c, i, previous_hash) ==
    IF i > Len(c)
    THEN [result |-> TRUE, raised |-> "", failed_at |-> -1, walked |-> c]
    ELSE LET block == c[i]
             block_hash == block.hash
             unhashed == [c EXCEPT ![i].hash = NoHash]
         IN  IF block_hash = NoHash
             THEN [result |-> FALSE, raised |-> "AttributeError",
                   failed_at |-> i - 1, walked |-> c]
             ELSE IF ~is_valid_proof(block, block_hash)
             THEN [result |-> FALSE, raised |-> "", failed_at |-> i - 1,
                   walked |-> unhashed]
             ELSE IF previous_hash # block.previous_hash
             THEN [result |-> FALSE, raised |-> "", failed_at |-> i - 1,
                   walked |-> unhashed]
             ELSE chain_walk(c, i + 1, block_hash)

\* A value deepcopy cannot clone (it raises TypeError), held in a block's
\* transactions.
Uncopyable == -1

\* deepcopy(chain) returns: no block holds a value that cannot be cloned.
Copyable(c) ==
    \A i \in 1..Len(c) :
        \A j \in 1..Len(c[i].transactions) : c[i].transactions[j] # Uncopyable

\* What a call of check_chain_validity on the list c gives: what the loop gave
\* and, as chain, the list that was passed in as the call leaves it.
Validated(c, walk) ==
    [result |-> walk.result, raised |-> walk.raised,
     failed_at |-> walk.failed_at, chain |-> c]

\* check_chain_validity with previous_hash initialised to no hash at all.
check_chain_validity_no_sentinel(c) ==
    Validated(c, chain_walk(c, 1, NoHash))

\* check_chain_validity walking the list it was given, not a copy of it.
check_chain_validity_in_place(c) ==
    LET walk == chain_walk(c, 1, Sentinel)
    IN  Validated(walk.walked, walk)

\* check_chain_validity(chain): False when the deep copy fails (lines 189-192),
\* else the loop over chain_copy, whose blocks are not those of chain.
check_chain_validity(c) ==
    IF ~Copyable(c)
    THEN [result |-> FALSE, raised |-> "", failed_at |-> -1, chain |-> c]
    ELSE LET chain_copy == c
         IN  Validated(c, chain_walk(chain_copy, 1, Sentinel))

-----------------------------------------------------------------------------
(* The heap of list objects *)

\* A reference no live object has.
NewRef(h) == CHOOSE r \in 1..(Cardinality(DOMAIN h) + 1) : r \notin DOMAIN h

\* h with a new empty list at r.
Alloc(h, r, txs) == [x \in (DOMAIN h) \cup {r} |-> IF x = r THEN txs ELSE h[x]]

\* The lists still referenced by the peer: unreferenced ones are freed.
Collect(h, c, pool, nb) ==
    LET live == {pool} \cup {c[i].transactions : i \in 1..Len(c)}
                \cup (IF nb = NoBlock THEN {} ELSE {nb.transactions})
    IN  [x \in live |-> h[x]]

\* Content of the pool.
Pool == heap[unconfirmed_transactions]

-----------------------------------------------------------------------------
(* What `last` records of a completed call *)

\* The record of a call of op that raised nothing, returned None and gave none
\* of the details below.
Call(op) ==
    [op |-> op, raised |-> "", ret |-> "None",
     pow_ran |-> FALSE,            \* the call ran proof_of_work
     prev_ok |-> TRUE,             \* _add_block: block.previous_hash = tail's hash
     zeros_ok |-> TRUE,            \* _add_block: proof has the leading zeros
     hash_ok |-> TRUE,             \* _add_block: proof = block.compute_hash()
     hash_before |-> NoHash,       \* _add_block: block.hash before the call
     hash_after |-> NoHash,        \* _add_block: block.hash after the call
     tamper |-> "none",            \* check_chain_validity: field altered in its input
     delta |-> 0,                  \* ... by how much, for the nonce
     at |-> -1,                    \* ... position of the altered block
     failed_at |-> -1,             \* check_chain_validity: where the walk stopped
     during |-> {},                \* mine: the transactions added while it ran
     length |-> -1,                \* _get_chain: the "length" entry returned
     chain_data |-> <<>>,          \* _get_chain: the "chain" entry returned
     input_kept |-> TRUE,          \* check_chain_validity: its argument is as it was
     arg |-> NoBlock,              \* proof_of_work, is_valid_proof: the block passed
     out |-> NoBlock,              \* proof_of_work: the block as the call leaves it
     digest |-> NoHash]            \* the hash proof_of_work returned, or the one
                                   \* is_valid_proof was given

\* The constructor's call: it mines the genesis block (lines 30, 110, 43).
NoCall == [Call("__init__") EXCEPT !.pow_ran = TRUE]

Idle ==
    /\ pc = "idle"
    /\ appending = EmptyBag
    /\ UNCHANGED <<pc, new_block, computed_hash, start_pool, appending>>

-----------------------------------------------------------------------------
(* Construction *)

Init ==
    /\ peer_name \in PeerNames
    /\ heap = <<<<>>, <<>>>>
    /\ unconfirmed_transactions = 1
    /\ chain = <<genesis_block(2)>>
    /\ next_tx = 1
    /\ storage = NoFile
    /\ announces = 0
    /\ pc = "idle"
    /\ new_block = NoBlock
    /\ computed_hash = NoHash
    /\ start_pool = <<>>
    /\ appending = EmptyBag
    /\ last = NoCall

-----------------------------------------------------------------------------
(* The peer's operations, each call run to completion *)

\* create_genesis_block() called again on the constructed peer: it is a public
\* method and nothing guards it.  self.chain is rebound to a new list holding a
\* new genesis block; the blocks of the old list are dropped.
create_genesis_block ==
    /\ Idle
    /\ LET kept == Collect(heap, <<>>, unconfirmed_transactions, NoBlock)
           ref == NewRef(kept)
       IN  /\ heap' = Alloc(kept, ref, <<>>)
           /\ chain' = <<genesis_block(ref)>>
    /\ last' = [Call("create_genesis_block") EXCEPT !.pow_ran = TRUE]
    /\ UNCHANGED <<peer_name, unconfirmed_transactions, next_tx, storage, announces>>

\* add_new_transaction(transaction): appends to the pool's list in place.
add_new_transaction(transaction) ==
    /\ next_tx <= MaxTx
    /\ transaction = next_tx
    /\ heap' = [heap EXCEPT ![unconfirmed_transactions] = Append(@, transaction)]
    /\ next_tx' = next_tx + 1
    /\ UNCHANGED <<peer_name, chain, unconfirmed_transactions, storage, announces,
                   pc, new_block, computed_hash, start_pool, appending>>

AddNewTransaction ==
    /\ \E transaction \in 1..MaxTx : add_new_transaction(transaction)
    /\ last' = Call("add_new_transaction")

\* mine() numbering the new block like the tail.
mined_block_same_index(ts) ==
    Block(last_block.index, unconfirmed_transactions, peer_name, ts,
          last_block.hash, 0)

\* mine() linking the new block to no block: the genesis sentinel.
mined_block_unlinked(ts) ==
    Block(last_block.index + 1, unconfirmed_transactions, peer_name, ts,
          Sentinel, 0)

\* The Block mine() builds at time ts (lines 153-161): its transactions are
\* the pool's own list.
mined_block(ts) ==
    Block(last_block.index + 1, unconfirmed_transactions, peer_name, ts,
          last_block.hash, 0)

\* mine(), lines 149-151: nothing to mine.
mine_nothing ==
    /\ last' = Call("mine")
    /\ UNCHANGED <<peer_name, chain, heap, unconfirmed_transactions, next_tx,
                   storage, announces>>

\* mine(), lines 153-166: build, search, append, clear, announce.
mine_pool(ts) ==
    /\ Len(chain) < MaxChain
    /\ LET built == mined_block(ts)
           pw == proof_of_work(View(built, heap))
           searched == [built EXCEPT !.nonce = pw.nonce]
           proof == pw.computed_hash
           res == add_block_result(chain, heap, searched, proof)
       IN  IF res.raised # ""
           THEN /\ chain' = res.chain
                /\ last' = [Call("mine") EXCEPT !.pow_ran = TRUE,
                                          !.raised = res.raised]
                /\ UNCHANGED <<peer_name, heap, unconfirmed_transactions,
                               next_tx, storage, announces>>
           ELSE /\ chain' = res.chain
                /\ unconfirmed_transactions' = NewRef(heap)
                /\ heap' = Alloc(heap, NewRef(heap), <<>>)
                /\ storage' = peer_name
                /\ announces' = announces + 1
                /\ last' = [Call("mine") EXCEPT !.pow_ran = TRUE,
                                          !.hash_after = res.block.hash]
                /\ UNCHANGED <<peer_name, next_tx>>

\* mine() without the empty-pool return.
mine_empty_block(ts) == Idle /\ mine_pool(ts)

\* mine() with time.time() = ts, run without interruption.
mine(ts) ==
    /\ Idle
    /\ IF Pool = <<>> THEN mine_nothing ELSE mine_pool(ts)

Mine == \E ts \in Timestamps : mine(ts)

\* Blocks and proofs a caller hands to _add_block.
CallerIndexes == {last_block.index + 1, last_block.index + 2}
CallerTransactions == {<<1>>}
CallerPreviousHashes == {last_block.hash, chain[1].hash, Sentinel}
CallerProofs(b) == {compute_hash(b), last_block.hash, Sentinel}
\* The caller ran the nonce search on its block, or left the nonce at 0.
CallerNonces(b) == {0, proof_of_work(b).nonce}

\* _add_block(block, proof) called with a block of the caller's own, and run
\* to its end with no other call in between.
_add_block(block, txs, proof) ==
    /\ Idle
    /\ Len(chain) < MaxChain
    /\ LET ref == NewRef(heap)
           h == Alloc(heap, ref, txs)
           obj == [block EXCEPT !.transactions = ref]
           res == add_block_result(chain, h, obj, proof)
       IN  /\ chain' = res.chain
           /\ heap' = Collect(h, res.chain, unconfirmed_transactions, new_block)
           /\ last' = [Call("_add_block") EXCEPT
                         !.raised = res.raised,
                         !.prev_ok = (block.previous_hash = last_block.hash),
                         !.zeros_ok = startswith(proof, Zeros(difficulty)),
                         !.hash_ok = (proof = compute_hash(block)),
                         !.hash_before = block.hash,
                         !.hash_after = res.block.hash]
    /\ UNCHANGED <<peer_name, unconfirmed_transactions, next_tx, storage, announces>>

AddBlock ==
    \E index \in CallerIndexes, txs \in CallerTransactions, ts \in Timestamps,
       previous_hash \in CallerPreviousHashes :
        \E nonce \in CallerNonces(Block(index, txs, peer_name, ts, previous_hash, 0)) :
            LET block == Block(index, txs, peer_name, ts, previous_hash, nonce)
            IN  \E proof \in CallerProofs(block) : _add_block(block, txs, proof)

\* What check_chain_validity returns, as `last` records it.
Returned(res) ==
    IF res.raised # "" THEN "raise" ELSE IF res.result THEN "True" ELSE "False"

\* check_chain_validity(self.chain): the blocks of the chain are those of the
\* argument, so they have the hash the call leaves on the argument's blocks.
CheckChainValidity ==
    /\ Idle
    /\ LET c == ChainView(chain, heap)
           res == check_chain_validity(c)
       IN  /\ chain' = [i \in 1..Len(chain) |->
                           [chain[i] EXCEPT !.hash = res.chain[i].hash]]
           /\ last' = [Call("check_chain_validity") EXCEPT !.raised = res.raised,
                                     !.ret = Returned(res),
                                     !.failed_at = res.failed_at,
                                     !.input_kept = (res.chain = c)]
    /\ UNCHANGED <<peer_name, heap, unconfirmed_transactions, next_tx,
                   storage, announces>>

\* The values one field of a sealed block can be altered to.
Alterations(b, field) ==
    CASE field = "previous_hash" ->
            {Sentinel, Zeros(difficulty), chain[1].hash, last_block.hash}
                \ {b.previous_hash}
      [] field = "nonce" -> {b.nonce + 1, b.nonce + HashCycle}
      [] field = "transactions" ->
            {<<>>, Append(b.transactions, MaxTx + 1),
             [j \in 1..Len(b.transactions) |->
                 IF j = 1 THEN MaxTx + 1 ELSE b.transactions[j]],
             [j \in 1..Len(b.transactions) |->
                 b.transactions[Len(b.transactions) + 1 - j]]}
                \ {b.transactions}

Altered(b, field, value) ==
    CASE field = "previous_hash" -> [b EXCEPT !.previous_hash = value]
      [] field = "nonce" -> [b EXCEPT !.nonce = value]
      [] field = "transactions" -> [b EXCEPT !.transactions = value]

\* check_chain_validity on a copy of the chain in which one field of one
\* sealed block was altered, its stored hash left as it was.
check_altered(i, field, value) ==
    /\ Idle
    /\ LET c == ChainView(chain, heap)
           altered == [c EXCEPT ![i] = Altered(c[i], field, value)]
           res == check_chain_validity(altered)
       IN  last' = [Call("check_chain_validity") EXCEPT !.raised = res.raised,
                                  !.ret = Returned(res),
                                  !.failed_at = res.failed_at,
                                  !.tamper = field,
                                  !.delta = IF field = "nonce"
                                            THEN value - c[i].nonce ELSE 0,
                                  !.at = i - 1,
                                  !.input_kept = (res.chain = altered)]
    /\ UNCHANGED <<peer_name, chain, heap, unconfirmed_transactions, next_tx,
                   storage, announces>>

CheckAltered ==
    \E i \in 1..Len(chain), field \in {"previous_hash", "nonce", "transactions"} :
        \E value \in Alterations(View(chain[i], heap), field) :
            check_altered(i, field, value)

Next ==
    \/ create_genesis_block
    \/ AddNewTransaction
    \/ Mine
    \/ AddBlock

Spec == Init /\ [][Next]_vars

\* The public operations that change the peer, each called any number of times.
NextPublic ==
    \/ create_genesis_block
    \/ AddNewTransaction
    \/ Mine

SpecPublic == Init /\ [][NextPublic]_vars

\* The peer's chain built by construction, add_new_transaction and mine alone,
\* and handed to the validator, as it is or with one field altered.
NextValidate ==
    \/ AddNewTransaction
    \/ Mine
    \/ CheckChainValidity
    \/ CheckAltered

SpecValidate == Init /\ [][NextValidate]_vars

\* Block i of a copy of the chain made unfit for validation: "unsealed", it
\* has no hash attribute; "uncopyable", it holds a value deepcopy cannot clone.
Unfit(b, kind) ==
    CASE kind = "unsealed" -> [b EXCEPT !.hash = NoHash]
      [] kind = "uncopyable" ->
            [b EXCEPT !.transactions = Append(b.transactions, Uncopyable)]

\* check_chain_validity on a copy of the chain whose block i is unfit.
check_unfit(i, kind) ==
    /\ Idle
    /\ LET c == ChainView(chain, heap)
           unfit == [c EXCEPT ![i] = Unfit(c[i], kind)]
           res == check_chain_validity(unfit)
       IN  last' = [Call("check_chain_validity") EXCEPT !.raised = res.raised,
                                  !.ret = Returned(res),
                                  !.failed_at = res.failed_at,
                                  !.tamper = kind,
                                  !.at = i - 1,
                                  !.input_kept = (res.chain = unfit)]
    /\ UNCHANGED <<peer_name, chain, heap, unconfirmed_transactions, next_tx,
                   storage, announces>>

CheckUnfit ==
    \E i \in 1..Len(chain), kind \in {"unsealed", "uncopyable"} :
        check_unfit(i, kind)

\* check_chain_validity given chains from anywhere: the peer's own, or one
\* with an altered, an unsealed or an uncopyable block.
NextUntrusted ==
    \/ AddNewTransaction
    \/ Mine
    \/ CheckChainValidity
    \/ CheckAltered
    \/ CheckUnfit

SpecUntrusted == Init /\ [][NextUntrusted]_vars

\* _get_chain(): a new list holding the chain's own block objects, each named
\* here by its position in self.chain, and the length of that list.
_get_chain ==
    /\ Idle
    /\ LET chain_data == [i \in 1..Len(chain) |-> i]
       IN  last' = [Call("_get_chain") EXCEPT !.length = Len(chain_data),
                                  !.chain_data = chain_data]
    /\ UNCHANGED <<peer_name, chain, heap, unconfirmed_transactions, next_tx,
                   storage, announces>>

\* The values the holder of a snapshot sets a field of one of its blocks to.
SnapshotMutations(b, field) ==
    CASE field = "previous_hash" -> {Sentinel, Zeros(difficulty)} \ {b.previous_hash}
      [] field = "nonce" -> {(b.nonce + 1) % HashCycle}

\* The caller assigns a field of block k of the list _get_chain returned: the
\* block is the object the chain holds at the position the snapshot names.
mutate_snapshot(k, field, value) ==
    /\ Idle
    /\ last.op = "_get_chain"
    /\ chain' = [chain EXCEPT ![last.chain_data[k]] =
                     Altered(chain[last.chain_data[k]], field, value)]
    /\ last' = [last EXCEPT !.tamper = field, !.at = k - 1]
    /\ UNCHANGED <<peer_name, heap, unconfirmed_transactions, next_tx,
                   storage, announces>>

MutateSnapshot ==
    \E k \in 1..Len(last.chain_data), field \in {"previous_hash", "nonce"} :
        \E value \in SnapshotMutations(chain[last.chain_data[k]], field) :
            mutate_snapshot(k, field, value)

\* The blocks a caller passes to proof_of_work and is_valid_proof: a sealed
\* block of the chain, one with its nonce changed after sealing, or a block of
\* the caller's own, not sealed, with any nonce.
ProofBlocks ==
    {View(chain[i], heap) : i \in 1..Len(chain)}
    \cup {[View(chain[i], heap) EXCEPT !.nonce = @ + 1] : i \in 1..Len(chain)}
    \cup {Block(last_block.index + 1, txs, peer_name, ts, previous_hash, nonce) :
            txs \in CallerTransactions, ts \in Timestamps,
            previous_hash \in {last_block.hash, Sentinel},
            nonce \in {0, 1, HashCycle}}

\* The hashes a caller claims for block b.
ClaimedHashes(b) ==
    {compute_hash(b), proof_of_work(b).computed_hash, b.hash, last_block.hash,
     Sentinel} \ {NoHash}

\* BlockchainPeer.proof_of_work(block) called on a block of the caller's.
ProofOfWork ==
    /\ Idle
    /\ \E block \in ProofBlocks :
          LET res == proof_of_work(block)
          IN  last' = [Call("proof_of_work") EXCEPT !.pow_ran = TRUE,
                                     !.arg = block,
                                     !.out = res.block,
                                     !.digest = res.computed_hash]
    /\ UNCHANGED <<peer_name, chain, heap, unconfirmed_transactions, next_tx,
                   storage, announces>>

\* BlockchainPeer.is_valid_proof(block, block_hash) called by a caller.
IsValidProof ==
    /\ Idle
    /\ \E block \in ProofBlocks :
          \E block_hash \in ClaimedHashes(block) :
             last' = [Call("is_valid_proof") EXCEPT
                        !.arg = block,
                        !.digest = block_hash,
                        !.ret = IF is_valid_proof(block, block_hash)
                                THEN "True" ELSE "False"]
    /\ UNCHANGED <<peer_name, chain, heap, unconfirmed_transactions, next_tx,
                   storage, announces>>

\* The two class methods called on their own, on blocks of a peer that mines.
NextProof ==
    \/ AddNewTransaction
    \/ Mine
    \/ ProofOfWork
    \/ IsValidProof

SpecProof == Init /\ [][NextProof]_vars

\* A peer whose chain is read with _get_chain by a caller that then changes
\* the blocks it was given.
NextSnapshot ==
    \/ AddNewTransaction
    \/ Mine
    \/ _get_chain
    \/ MutateSnapshot

SpecSnapshot == Init /\ [][NextSnapshot]_vars

-----------------------------------------------------------------------------
(* mine() step by step, for a peer whose callers run concurrently: other     *)
(* calls may run between two steps of the mine() in flight.                  *)

\* The transactions add_new_transaction appended since the mine() in flight
\* was called: those submitted after the last one of the pool it found.
AddedDuring == {t \in 1..(next_tx - 1) : t > start_pool[Len(start_pool)]}

\* The calls in flight that may still append a block: the callers' past the
\* checks, and a mine() that has not run line 78 yet.
Appenders ==
    BagCardinality(appending)
    + (IF pc \in {"proof_of_work", "while", "_add_block", "is_valid_proof", "append"}
       THEN 1 ELSE 0)

\* mine(), lines 147-161: the empty-pool return, or the new block built.
mine_start(ts) ==
    /\ pc = "idle"
    /\ IF Pool = <<>>
       THEN /\ last' = Call("mine")
            /\ UNCHANGED <<pc, new_block, start_pool>>
       ELSE /\ Len(chain) + Appenders < MaxChain
            /\ new_block' = mined_block(ts)
            /\ start_pool' = Pool
            /\ pc' = "proof_of_work"
            /\ UNCHANGED last
    /\ UNCHANGED <<peer_name, chain, heap, unconfirmed_transactions, next_tx,
                   storage, announces, computed_hash, appending>>

MineStart == \E ts \in Timestamps : mine_start(ts)

\* proof_of_work, lines 93-94.
pow_init ==
    /\ pc = "proof_of_work"
    /\ new_block' = [new_block EXCEPT !.nonce = 0]
    /\ computed_hash' = compute_hash(View(new_block', heap))
    /\ pc' = "while"
    /\ UNCHANGED <<peer_name, chain, heap, unconfirmed_transactions, next_tx,
                   storage, announces, start_pool, appending, last>>

\* proof_of_work, lines 95-101: one test of the loop condition, then either one
\* pass through the body or the return.
pow_step ==
    /\ pc = "while"
    /\ IF ~startswith(computed_hash, Zeros(difficulty))
       THEN /\ new_block' = [new_block EXCEPT !.nonce = new_block.nonce + 1]
            /\ computed_hash' = compute_hash(View(new_block', heap))
            /\ UNCHANGED pc
       ELSE /\ pc' = "_add_block"
            /\ UNCHANGED <<new_block, computed_hash>>
    /\ UNCHANGED <<peer_name, chain, heap, unconfirmed_transactions, next_tx,
                   storage, announces, start_pool, appending, last>>

\* The end of a mine() whose _add_block raised.
mine_raises(error) ==
    /\ last' = [Call("mine") EXCEPT !.pow_ran = TRUE,
                                    !.raised = error,
                                    !.during = AddedDuring]
    /\ pc' = "idle"
    /\ new_block' = NoBlock
    /\ computed_hash' = NoHash
    /\ start_pool' = <<>>

\* mine(), line 164, _add_block lines 66-70: the tail's hash is read and
\* compared with the block's previous_hash.
mine_link_check ==
    /\ pc = "_add_block"
    /\ LET previous_hash == last_block.hash
       IN  IF previous_hash # new_block.previous_hash
           THEN mine_raises("Invalid block")
           ELSE /\ pc' = "is_valid_proof"
                /\ UNCHANGED <<new_block, computed_hash, start_pool, last>>
    /\ UNCHANGED <<peer_name, chain, heap, unconfirmed_transactions, next_tx,
                   storage, announces, appending>>

\* A failed proof check that also throws the pool's transactions away.
mine_proof_check_dropping_pool ==
    /\ pc = "is_valid_proof"
    /\ IF ~is_valid_proof(View(new_block, heap), computed_hash)
       THEN /\ mine_raises("Invalid proof")
            /\ heap' = [heap EXCEPT ![unconfirmed_transactions] = <<>>]
       ELSE /\ pc' = "append"
            /\ UNCHANGED <<heap, new_block, computed_hash, start_pool, last>>
    /\ UNCHANGED <<peer_name, chain, unconfirmed_transactions, next_tx,
                   storage, announces, appending>>

\* mine(), line 164, _add_block lines 72-74: the proof is checked against the
\* digest of the block as it is now, its transactions being the pool's list.
mine_proof_check ==
    /\ pc = "is_valid_proof"
    /\ IF ~is_valid_proof(View(new_block, heap), computed_hash)
       THEN /\ mine_raises("Invalid proof")
            /\ UNCHANGED heap
       ELSE /\ pc' = "append"
            /\ UNCHANGED <<heap, new_block, computed_hash, start_pool, last>>
    /\ UNCHANGED <<peer_name, chain, unconfirmed_transactions, next_tx,
                   storage, announces, appending>>

\* mine(), line 164, _add_block lines 77-78: the block gets its hash and goes
\* to the end of the chain as the chain is now.
mine_append ==
    /\ pc = "append"
    /\ new_block' = [new_block EXCEPT !.hash = computed_hash]
    /\ chain' = Append(chain, new_block')
    /\ pc' = "clear"
    /\ UNCHANGED <<peer_name, heap, unconfirmed_transactions, next_tx, storage,
                   announces, computed_hash, start_pool, appending, last>>

\* mine() emptying the pool's list in place instead of rebinding the pool.
mine_clear_in_place ==
    /\ pc = "clear"
    /\ heap' = [heap EXCEPT ![unconfirmed_transactions] = <<>>]
    /\ pc' = "_announce"
    /\ UNCHANGED <<peer_name, chain, unconfirmed_transactions, next_tx, storage,
                   announces, new_block, computed_hash, start_pool, appending,
                   last>>

\* mine() going on to _announce with the pool left as it is.
mine_clear_skipped ==
    /\ pc = "clear"
    /\ pc' = "_announce"
    /\ UNCHANGED <<peer_name, chain, heap, unconfirmed_transactions, next_tx,
                   storage, announces, new_block, computed_hash, start_pool,
                   appending, last>>

\* mine(), line 165: the pool is rebound to a new empty list.
mine_clear ==
    /\ pc = "clear"
    /\ unconfirmed_transactions' = NewRef(heap)
    /\ heap' = Alloc(heap, NewRef(heap), <<>>)
    /\ pc' = "_announce"
    /\ UNCHANGED <<peer_name, chain, next_tx, storage, announces, new_block,
                   computed_hash, start_pool, appending, last>>

\* mine(), line 166, _announce line 138: open(..., 'wb') creates the file or
\* empties it.
mine_announce_open ==
    /\ pc = "_announce"
    /\ storage' = EmptyFile
    /\ pc' = "pickle.dump"
    /\ UNCHANGED <<peer_name, chain, heap, unconfirmed_transactions, next_tx,
                   announces, new_block, computed_hash, start_pool, appending,
                   last>>

\* _announce line 139 and the end of the with block: the peer's name is in the
\* file, and mine() returns.
mine_announce ==
    /\ pc = "pickle.dump"
    /\ storage' = peer_name
    /\ announces' = announces + 1
    /\ last' = [Call("mine") EXCEPT !.pow_ran = TRUE,
                                    !.hash_after = new_block.hash,
                                    !.during = AddedDuring]
    /\ pc' = "idle"
    /\ new_block' = NoBlock
    /\ computed_hash' = NoHash
    /\ start_pool' = <<>>
    /\ UNCHANGED <<peer_name, chain, heap, unconfirmed_transactions, next_tx,
                   appending>>

\* _add_block(block, proof) called by another thread with a block of its own,
\* lines 66-74: the tail's hash is read and the checks are made on it.  A call
\* that fails is over; one that passes has the append left to do.
add_block_checks(block, txs, proof) ==
    /\ Len(chain) + Appenders < MaxChain
    /\ LET ref == NewRef(heap)
           h == Alloc(heap, ref, txs)
           obj == [block EXCEPT !.transactions = ref]
           res == add_block_result(chain, h, obj, proof)
       IN  IF res.raised # ""
           THEN /\ chain' = res.chain
                /\ heap' = Collect(h, res.chain, unconfirmed_transactions, new_block)
                /\ last' = [Call("_add_block") EXCEPT
                              !.raised = res.raised,
                              !.prev_ok = (block.previous_hash = last_block.hash),
                              !.zeros_ok = startswith(proof, Zeros(difficulty)),
                              !.hash_ok = (proof = compute_hash(block)),
                              !.hash_before = block.hash,
                              !.hash_after = res.block.hash]
                /\ UNCHANGED appending
           ELSE /\ appending' = appending (+) SetToBag({[block |-> block, proof |-> proof]})
                /\ UNCHANGED <<chain, heap, last>>
    /\ UNCHANGED <<peer_name, unconfirmed_transactions, next_tx, storage, announces,
                   pc, new_block, computed_hash, start_pool>>

AddBlockChecks ==
    \E index \in CallerIndexes, txs \in CallerTransactions, ts \in Timestamps,
       previous_hash \in CallerPreviousHashes :
        \E nonce \in CallerNonces(Block(index, txs, peer_name, ts, previous_hash, 0)) :
            LET block == Block(index, txs, peer_name, ts, previous_hash, nonce)
            IN  \E proof \in CallerProofs(block) : add_block_checks(block, txs, proof)

\* _add_block lines 77-78 of a call that passed the checks: the block gets its
\* hash and goes to the end of the chain as the chain is now.
add_block_append(call) ==
    /\ BagIn(call, appending)
    /\ LET ref == NewRef(heap)
           sealed == [call.block EXCEPT !.transactions = ref, !.hash = call.proof]
       IN  /\ heap' = Alloc(heap, ref, call.block.transactions)
           /\ chain' = Append(chain, sealed)
           /\ last' = [Call("_add_block") EXCEPT !.hash_before = call.block.hash,
                                                 !.hash_after = sealed.hash]
    /\ appending' = appending (-) SetToBag({call})
    /\ UNCHANGED <<peer_name, unconfirmed_transactions, next_tx, storage, announces,
                   pc, new_block, computed_hash, start_pool>>

AddBlockAppend == \E call \in BagToSet(appending) : add_block_append(call)

\* Calls from several threads: add_new_transaction and _add_block run between
\* the steps of a mine(), and between the checks and the append of one another.
\* One mine() is in flight at a time.
NextConc ==
    \/ AddNewTransaction
    \/ AddBlockChecks
    \/ AddBlockAppend
    \/ MineStart
    \/ pow_init
    \/ pow_step
    \/ mine_link_check
    \/ mine_proof_check
    \/ mine_append
    \/ mine_clear
    \/ mine_announce_open
    \/ mine_announce

SpecConc == Init /\ [][NextConc]_vars

-----------------------------------------------------------------------------
(* Properties *)

\* The chain by value: every block with the content of its transactions list.
Ledger == ChainView(chain, heap)

\* C1: in every reachable state each block after the first names the hash of
\* its predecessor as previous_hash, and every block's hash starts with
\* `difficulty` zero characters.
C1_LinkedAndProven ==
    /\ \A i \in 2..Len(chain) : chain[i].previous_hash = chain[i - 1].hash
    /\ \A i \in 1..Len(chain) : startswith(chain[i].hash, Zeros(difficulty))

C1_Witness ==
    /\ Len(chain) >= 3
    /\ last.op = "mine"
    /\ last.hash_after = chain[Len(chain)].hash

\* C2: check_chain_validity returns True for the chain of a peer built by
\* construction, add_new_transaction and mine.
C2_BuiltChainValid ==
    (last.op = "check_chain_validity" /\ last.tamper = "none")
        => (last.ret = "True" /\ last.failed_at = -1)

C2_Witness ==
    /\ last.op = "check_chain_validity"
    /\ last.tamper = "none"
    /\ last.ret = "True"
    /\ Len(chain) >= 3

\* C3: with the previous_hash, the nonce or the transactions of one sealed
\* block altered and its stored hash kept, check_chain_validity returns False,
\* and the walk stops at the altered block.
C3_AlterationDetected ==
    (last.op = "check_chain_validity" /\ last.tamper # "none")
        => (last.ret = "False" /\ last.failed_at = last.at)

C3_Witness ==
    /\ last.op = "check_chain_validity"
    /\ last.tamper = "nonce"
    /\ last.delta = 1
    /\ last.at = 1
    /\ last.ret = "False"
    /\ last.failed_at = 1

\* C4: _add_block with a block whose previous_hash is not the tail's hash
\* raises "Invalid block", whatever the proof, and changes neither the chain
\* nor the block's hash.
C4_PreviousHashMismatchRejected ==
    [][(last'.op = "_add_block" /\ ~last'.prev_ok)
        => /\ last'.raised = "Invalid block"
           /\ chain' = chain
           /\ Ledger' = Ledger
           /\ last'.hash_after = last'.hash_before]_vars

C4_Witness ==
    /\ last.op = "_add_block"
    /\ ~last.prev_ok
    /\ last.zeros_ok
    /\ last.hash_ok
    /\ last.raised = "Invalid block"
    /\ last.hash_after = NoHash

\* C5: _add_block with a block whose previous_hash is the tail's hash raises
\* "Invalid proof" when the proof lacks the leading zeros or is not the block's
\* recomputed hash, changing neither the chain nor the block's hash; when both
\* tests pass it sets block.hash to the proof and appends the block; and it
\* appends in no other case.
C5_ProofVerifiedBeforeAppend ==
    [][(last'.op = "_add_block")
        => /\ (last'.prev_ok /\ ~(last'.zeros_ok /\ last'.hash_ok))
                => /\ last'.raised = "Invalid proof"
                   /\ chain' = chain
                   /\ Ledger' = Ledger
                   /\ last'.hash_after = last'.hash_before
           /\ (last'.prev_ok /\ last'.zeros_ok /\ last'.hash_ok)
                => /\ last'.raised = ""
                   /\ Len(chain') = Len(chain) + 1
                   /\ SubSeq(Ledger', 1, Len(chain)) = Ledger
                   /\ last'.hash_after = Ledger'[Len(chain')].hash
                   /\ last'.hash_after = compute_hash(Ledger'[Len(chain')])
           /\ (chain' # chain)
                => (last'.prev_ok /\ last'.zeros_ok /\ last'.hash_ok)]_vars

C5_Witness ==
    /\ last.op = "_add_block"
    /\ last.prev_ok
    /\ last.zeros_ok
    /\ ~last.hash_ok
    /\ last.raised = "Invalid proof"
    /\ last.hash_after = NoHash

\* A step of the mine() call in flight up to its append, and the step in which
\* its append raises.
MineStepBeforeAppend ==
    /\ pc' \in {"proof_of_work", "while", "_add_block", "is_valid_proof", "append"}
    /\ <<pc', new_block', computed_hash'>> # <<pc, new_block, computed_hash>>

MineAppendFails ==
    /\ pc \in {"_add_block", "is_valid_proof"}
    /\ pc' = "idle"
    /\ last'.op = "mine"
    /\ last'.raised \in {"Invalid block", "Invalid proof"}

\* C6 as stated: when the append inside mine() fails, the call has changed
\* neither the chain nor the pool, the pool holds exactly what it held when
\* mine() was called, and nothing is announced.
C6_PoolAsBeforeTheCall ==
    [][MineAppendFails
        => /\ chain' = chain
           /\ Ledger' = Ledger
           /\ Pool' = start_pool
           /\ announces' = announces
           /\ storage' = storage]_vars

\* C6, amended: no step of a mine() whose append fails changes the chain, the
\* pool or the announce file; when the call ends the pool is the list it was,
\* holding what it held when mine() was called, in the same order, followed by
\* whatever add_new_transaction appended while the call was in progress.
C6_FailedMineKeepsChainAndPool ==
    [][/\ MineStepBeforeAppend
          => /\ chain' = chain
             /\ heap' = heap
             /\ unconfirmed_transactions' = unconfirmed_transactions
             /\ announces' = announces
             /\ storage' = storage
       /\ MineAppendFails
          => /\ chain' = chain
             /\ Ledger' = Ledger
             /\ heap' = heap
             /\ unconfirmed_transactions' = unconfirmed_transactions
             /\ IsPrefix(start_pool, Pool')
             /\ start_pool # <<>>
             /\ announces' = announces
             /\ storage' = storage]_vars

C6_Witness ==
    /\ last.op = "mine"
    /\ last.raised = "Invalid proof"
    /\ pc = "idle"
    /\ Len(Pool) >= 2
    /\ announces = 0

\* C7: a mine() with a non-empty pool that raises nothing appends exactly one
\* block: index the old tail's + 1, previous_hash the old tail's hash, author
\* the peer's name, transactions the whole pool in order; the pool is empty
\* afterwards and the earlier blocks are as before.
C7_MineAppendsThePool ==
    [][(last'.op = "mine" /\ Pool # <<>> /\ last'.raised = "")
        => /\ Len(chain') = Len(chain) + 1
           /\ SubSeq(Ledger', 1, Len(chain)) = Ledger
           /\ Ledger'[Len(chain')].index = last_block.index + 1
           /\ Ledger'[Len(chain')].previous_hash = last_block.hash
           /\ Ledger'[Len(chain')].author = peer_name
           /\ Ledger'[Len(chain')].transactions = Pool
           /\ Pool' = <<>>]_vars

C7_Witness ==
    /\ last.op = "mine"
    /\ last.pow_ran
    /\ last.raised = ""
    /\ Len(chain) >= 2
    /\ Len(Ledger[Len(chain)].transactions) >= 2
    /\ Pool = <<>>

\* C8: mine() with an empty pool changes neither the chain nor the pool, runs
\* no proof-of-work, announces nothing and raises nothing.
C8_EmptyPoolNoOp ==
    [][(last'.op = "mine" /\ Pool = <<>>)
        => /\ chain' = chain
           /\ heap' = heap
           /\ unconfirmed_transactions' = unconfirmed_transactions
           /\ announces' = announces
           /\ storage' = storage
           /\ ~last'.pow_ran
           /\ last'.raised = ""]_vars

C8_Witness ==
    /\ last.op = "mine"
    /\ ~last.pow_ran
    /\ last.raised = ""
    /\ Pool = <<>>
    /\ Len(chain) >= 2

\* C9: right after construction the chain is the genesis block alone: index 0,
\* previous_hash "0", no transactions, and a hash for which is_valid_proof
\* holds.
C9_GenesisAfterConstruction ==
    (last.op = "__init__")
        => /\ Len(chain) = 1
           /\ Ledger[1].index = 0
           /\ Ledger[1].previous_hash = Sentinel
           /\ Ledger[1].transactions = <<>>
           /\ is_valid_proof(Ledger[1], Ledger[1].hash)

C9_Witness ==
    /\ last.op = "__init__"
    /\ Len(chain) = 1
    /\ chain[1].hash # NoHash
    /\ Pool = <<>>

\* C10: the chain is append-only under create_genesis_block,
\* add_new_transaction and mine: the chain before a call is a prefix of the
\* chain after it.
C10_AppendOnly == [][IsPrefix(Ledger, Ledger')]_vars

\* C11: block indices increase by exactly 1 along the chain: the block at
\* position i (from 0) has index i, in every state reached by mine() and by
\* _add_block with any block and proof it accepts.
C11_IndexIsPosition == \A i \in 1..Len(chain) : chain[i].index = i - 1

\* C12: a sealed block in the chain never changes: under every interleaving of
\* add_new_transaction with the steps of mine(), each block of the chain holds
\* the transactions its hash was computed from (its hash is still the digest of
\* its fields).
C12_SealedBlocksKeepTheirContent ==
    \A i \in 1..Len(chain) : chain[i].hash = compute_hash(Ledger[i])

\* How many times transaction t occurs in the sequence s.
Count(t, s) == Cardinality({j \in 1..Len(s) : s[j] = t})

\* The step in which a mine() that appended its block returns.
MineReturns ==
    /\ pc = "pickle.dump"
    /\ pc' = "idle"

\* C13: a transaction added by add_new_transaction while a mine() call is in
\* progress is, when the call ends, in the block the call appended or in the
\* pool, and in one of the two exactly once; a call that appended nothing
\* leaves it in the pool.
C13_AddedDuringMineKeptOnce ==
    [][/\ MineReturns
          => \A t \in AddedDuring :
                Count(t, heap'[new_block.transactions]) + Count(t, Pool') = 1
       /\ MineAppendFails
          => /\ chain' = chain
             /\ \A t \in AddedDuring : Count(t, Pool') = 1]_vars

C13_Witness ==
    /\ last.op = "mine"
    /\ last.raised = ""
    /\ pc = "idle"
    /\ \E i \in 1..Len(chain) :
          /\ chain[i].hash = last.hash_after
          /\ \E t \in last.during : Count(t, Ledger[i].transactions) = 1
    /\ \E t \in last.during : Count(t, Pool) = 1

\* C14: the snapshot _get_chain returns is an independent deep copy: its
\* length is the chain's, its blocks are the chain's blocks in chain order,
\* and assigning a field of a block of the snapshot leaves every block of the
\* live chain as it was.
C14_SnapshotIsIndependent ==
    [][/\ (last'.op = "_get_chain" /\ last'.tamper = "none")
          => /\ last'.length = Len(chain')
             /\ Len(last'.chain_data) = Len(chain')
             /\ \A k \in 1..Len(chain') :
                   View(chain'[last'.chain_data[k]], heap') = Ledger'[k]
       /\ (last.op = "_get_chain" /\ last'.op = "_get_chain"
           /\ last'.tamper # "none")
          => Ledger' = Ledger]_vars

\* C15: check_chain_validity never changes the chain it is given: whatever it
\* returns, and also when it stops early at a failing block, every block of
\* its argument, and of the peer's chain, has the fields and the stored hash
\* it had before the call.
C15_ValidationKeepsItsInput ==
    [][last'.op = "check_chain_validity"
        => /\ last'.input_kept
           /\ chain' = chain
           /\ Ledger' = Ledger]_vars

C15_Witness ==
    /\ last.op = "check_chain_validity"
    /\ last.ret = "False"
    /\ last.tamper = "transactions"
    /\ last.failed_at = 0
    /\ last.input_kept
    /\ Len(chain) >= 2

\* C16: check_chain_validity never raises: for every chain, one with an
\* unsealed block or with a block that cannot be copied included, it returns,
\* and for these two it returns False.
C16_ValidationNeverRaises ==
    last.op = "check_chain_validity"
        => /\ last.raised = ""
           /\ last.tamper \in {"unsealed", "uncopyable"} => last.ret = "False"

\* The digest of block b with its nonce set to n has the leading zeros.
Solves(b, n) ==
    startswith(compute_hash([b EXCEPT !.nonce = n]), Zeros(difficulty))

\* C17: proof_of_work(block) starts again from nonce 0 and stops at the
\* smallest nonce whose digest has `difficulty` leading zeros: on return the
\* block has that nonce and is otherwise as it was, its hash attribute
\* included, and the hash returned is compute_hash() of the block.
C17_SmallestNonceFromZero ==
    last.op = "proof_of_work"
        => /\ last.out = [last.arg EXCEPT !.nonce = last.out.nonce]
           /\ last.out.nonce >= 0
           /\ Solves(last.arg, last.out.nonce)
           /\ \A n \in 0..(last.out.nonce - 1) : ~Solves(last.arg, n)
           /\ last.digest = compute_hash(last.out)
           /\ last.out.hash = last.arg.hash

C17_Witness ==
    /\ last.op = "proof_of_work"
    /\ last.arg.hash = NoHash
    /\ last.arg.nonce > 0
    /\ last.out.nonce > 0
    /\ last.out.nonce # last.arg.nonce

\* C18: is_valid_proof(block, claimed_hash) is True exactly when claimed_hash
\* has the leading zeros and is the hash recomputed from the block's fields,
\* a hash stored on the block playing no part; so it is True for a sealed
\* block of the chain and the hash stored on it.
C18_ValidIffZerosAndRecomputed ==
    last.op = "is_valid_proof"
        => /\ (last.ret = "True")
                <=> /\ startswith(last.digest, Zeros(difficulty))
                    /\ last.digest = compute_hash([last.arg EXCEPT !.hash = NoHash])
           /\ (\E i \in 1..Len(chain) :
                  last.arg = Ledger[i] /\ last.digest = Ledger[i].hash)
                => last.ret = "True"

C18_Witness ==
    /\ last.op = "is_valid_proof"
    /\ Len(chain) >= 2
    /\ last.arg = Ledger[2]
    /\ last.digest = Ledger[2].hash
    /\ last.ret = "True"

\* C19: the announcement is made once per mine() that appended its block, with
\* the peer's name, and only when the block is in the chain and the pool has
\* been replaced; a mine() with an empty pool, or one whose append failed,
\* announces nothing.
C19_AnnouncedOncePerMinedBlock ==
    [][/\ (announces' # announces \/ storage' # storage)
          => /\ pc \in {"_announce", "pickle.dump"}
             /\ announces' # announces => MineReturns
             /\ storage' \in {EmptyFile, peer_name}
             /\ \E i \in 1..Len(chain) : chain[i] = new_block
             /\ unconfirmed_transactions # new_block.transactions
       /\ MineReturns
          => /\ announces' = announces + 1
             /\ storage' = peer_name
       /\ (last'.op = "mine" /\ pc' = "idle" /\ ~MineReturns /\ last' # last)
          => /\ announces' = announces
             /\ storage' = storage]_vars

C19_Witness ==
    /\ last.op = "mine"
    /\ last.pow_ran
    /\ last.raised = ""
    /\ pc = "idle"
    /\ announces = 2
    /\ storage = peer_name
    /\ Len(chain) = 3

\* C20: called with no other call running, a mine() with a non-empty pool
\* never fails: the block it built is linked to the tail and the hash its
\* search returned is a valid proof of it, so the append passes both checks,
\* one block is added and the pool is empty afterwards.
C20_SequentialMineSucceeds ==
    [][(last'.op = "mine" /\ Pool # <<>>)
        => /\ last'.pow_ran
           /\ last'.raised = ""
           /\ Len(chain') = Len(chain) + 1
           /\ last_block'.previous_hash = last_block.hash
           /\ is_valid_proof([Ledger'[Len(chain')] EXCEPT !.hash = NoHash],
                             last_block'.hash)
           /\ Pool' = <<>>]_vars

C20_Witness ==
    /\ last.op = "mine"
    /\ last.pow_ran
    /\ last.raised = ""
    /\ Len(chain) = MaxChain
    /\ last_block.hash = last.hash_after
    /\ last_block.nonce > 0
    /\ Pool = <<>>

====
